---- MODULE Spec2Model ----
(***************************************************************************)
(* Model of upup/pkg/fi/cloudup/gcetasks/forwardingrule.go:                *)
(*   - the GCE ForwardingRule reconciliation task (Find, CheckChanges,     *)
(*     RenderGCE) driven pass by pass against a model of the compute API;  *)
(*   - the OpenStack load-balancer adapters, each a closure run under      *)
(*     vfs.RetryWithBackoff against a model of the Octavia API.            *)
(* Go pointers are one-element sequences: <<>> is nil, <<v>> points to v.  *)
(***************************************************************************)
EXTENDS Integers, Sequences, FiniteSets, TLC

\* ------------------------------------------------------------------ bounds
MaxPasses == 2          \* reconciliation passes of the orchestrator
MaxExternal == 1        \* label edits by an actor outside the program
MaxMembers == 2         \* memberships of one server the pool can hold
\* Steps of readBackoff, writeBackoff and deleteBackoff: they are set in another
\* file of the package; every policy has fewer steps than memberBackoff
ReadSteps == 3
WriteSteps == 3
DeleteSteps == 3

\* ------------------------------------------------------------ Go helpers
Nil == <<>>
Ptr(v) == <<v>>
\* fi.ValueOf: the zero value of a nil pointer
ValueOf(p) == IF p = Nil THEN "" ELSE p[1]

\* ------------------------------------------------------- the GCE cloud
Project == "proj"
CloudRegion == "r1"             \* cloud.Region()
OtherRegion == "r2"
StoreRegions == {CloudRegion, OtherRegion}   \* regions the API serves
EmptyURL == <<>>
AddrName == "addr1"             \* the one reserved Address object
AddrIP == "10.0.0.1"
EphemeralIP == "10.0.0.5"       \* assigned by the cloud when none is asked
RuleIP == "10.0.0.9"            \* a rule-managed literal, no Address holds it
ProdLabels == {<<"env", "prod">>}
ExtLabels == {<<"owner", "ops">>}
NoRule == <<>>

\* TargetPool.URL, BackendService.URL, Network.URL, Subnet.URL
TargetPoolURL(tp) == <<Project, CloudRegion, "targetPools", ValueOf(tp.Name)>>
BackendServiceURL(bs, region) == <<Project, region, "backendServices", ValueOf(bs.Name)>>
NetworkURL(n, project) == <<project, "global", "networks", ValueOf(n.Name)>>
SubnetURL(s, project, region) == <<project, region, "subnetworks", ValueOf(s.Name)>>
lastComponent(url) == url[Len(url)]

\* gce.findAddressByIP on a healthy cloud: the Address holding ip, or nil
findAddressByIP(ip) ==
    IF ip = AddrIP THEN Ptr([Name |-> Ptr(AddrName), IPAddress |-> Ptr(AddrIP)])
    ELSE Nil

\* ----------------------------------------------------- desired rules
NameValues == {Nil, Ptr(""), Ptr("rule-a")}
TargetPoolValues == {Nil, Ptr([Name |-> Ptr("tp")])}
BackendServiceValues == {Nil, Ptr([Name |-> Ptr("bs")])}
AddressValues == {Nil,
                  Ptr([Name |-> Ptr(AddrName), IPAddress |-> Ptr(AddrIP)]),
                  Ptr([Name |-> Ptr(AddrName), IPAddress |-> Nil])}
RuleIPValues == {Nil, Ptr(RuleIP)}
NetworkValues == {Nil, Ptr([Name |-> Ptr("net"), Project |-> Nil]),
                  Ptr([Name |-> Ptr("net"), Project |-> Ptr("hostproj")])}
SubnetValues == {Nil, Ptr([Name |-> Ptr("sub")])}
RegionValues == {"", CloudRegion, OtherRegion}
LabelValues == {Nil, Ptr({}), Ptr(ProdLabels)}

\* type ForwardingRule (the exported fields and labelFingerprint)
ForwardingRule(name, tp, ip, ruleIP, net, sub, bs, region, labels) ==
    [Name |-> name, PortRange |-> Ptr("443-443"), Ports |-> <<>>,
     TargetPool |-> tp, IPAddress |-> ip, RuleIPAddress |-> ruleIP,
     IPProtocol |-> "TCP", LoadBalancingScheme |-> Ptr("EXTERNAL"),
     Network |-> net, Subnetwork |-> sub, BackendService |-> bs,
     Region |-> region, Labels |-> labels, labelFingerprint |-> Nil]

\* &ForwardingRule{}
ZeroRule ==
    [Name |-> Nil, PortRange |-> Nil, Ports |-> <<>>,
     TargetPool |-> Nil, IPAddress |-> Nil, RuleIPAddress |-> Nil,
     IPProtocol |-> "", LoadBalancingScheme |-> Nil,
     Network |-> Nil, Subnetwork |-> Nil, BackendService |-> Nil,
     Region |-> "", Labels |-> Nil, labelFingerprint |-> Nil]

Fields == {"Name", "PortRange", "Ports", "TargetPool", "IPAddress", "RuleIPAddress",
           "IPProtocol", "LoadBalancingScheme", "Network", "Subnetwork",
           "BackendService", "Region", "Labels"}
RefFields == {"TargetPool", "IPAddress", "Network", "Subnetwork", "BackendService"}

VARIABLES
    e,          \* the desired ForwardingRule of this run
    rules,      \* cloud: region -> the forwarding rule named e.Name, or NoRule
    pc,         \* position of the orchestrator / RenderGCE
    pass,       \* number of the current pass
    a,          \* what Find returned: Nil or Ptr(actual)
    changes,    \* the changeset handed to RenderGCE
    labelsReq,  \* create path: the set-labels request built from the follow-up Get
    calls,      \* cloud calls issued by RenderGCE in this pass, in order
    result,     \* outcome of this pass: "none", "nil", "error", "panic"
    path,       \* how far this pass went: "none", "find", "norender", "check", "create", "update"
    hist,       \* history: the previous pass, faults, what Find and the label calls saw
    extEdits,   \* number of external label edits so far
    resources   \* Terraform target: Nil, or Ptr(the resource record rendered)

gceVars == <<e, rules, pc, pass, a, changes, labelsReq, calls, result, path,
             hist, extEdits, resources>>

VARIABLES
    lbClient,   \* c.LoadBalancerClient() != nil
    exists,     \* Octavia: kind -> the resource the adapters address exists
    members,    \* Octavia: memberships of the server in the pool
    lpc,        \* "idle", or "retry" inside vfs.RetryWithBackoff
    cur,        \* the adapter invocation in progress
    ret         \* the last completed adapter invocation

lbVars == <<lbClient, exists, members, lpc, cur, ret>>
vars == <<gceVars, lbVars>>

\* --------------------------------------------------------------- Find
\* The labels of a live rule as the Go client decodes them (nil when empty)
GoLabels(set) == IF set = {} THEN Nil ELSE Ptr(set)
\* The fingerprint the cloud derives from a rule's labels; never the zero value
Fingerprint(set) == <<"fp", set>>

\* Find, lines 80-128: the actual ForwardingRule decoded from the live rule r;
\* address is what findAddressByIP returned for r.IPAddress
FindActual(r, address) ==
    [Name |-> Ptr(r.Name),
     IPProtocol |-> r.IPProtocol,
     PortRange |-> IF r.PortRange # "" THEN Ptr(r.PortRange) ELSE Nil,
     Ports |-> r.Ports,
     TargetPool |-> IF r.Target # EmptyURL
                    THEN Ptr([Name |-> Ptr(lastComponent(r.Target))]) ELSE Nil,
     IPAddress |-> IF r.IPAddress # "" THEN address ELSE Nil,
     RuleIPAddress |-> Nil,
     BackendService |-> IF r.BackendService # EmptyURL
                        THEN Ptr([Name |-> Ptr(lastComponent(r.BackendService))]) ELSE Nil,
     LoadBalancingScheme |-> IF r.LoadBalancingScheme # ""
                             THEN Ptr(r.LoadBalancingScheme) ELSE Nil,
     Network |-> IF r.Network # EmptyURL
                 THEN Ptr([Name |-> Ptr(lastComponent(r.Network)), Project |-> Nil]) ELSE Nil,
     Subnetwork |-> IF r.Subnetwork # EmptyURL
                    THEN Ptr([Name |-> Ptr(lastComponent(r.Subnetwork))]) ELSE Nil,
     Region |-> "",
     Labels |-> GoLabels(r.Labels),
     labelFingerprint |-> r.LabelFingerprint]

\* The region Find reads the rule from, line 72
FindRegion == CloudRegion

\* ------------------------------------------------- the changeset (diff)
\* Two values of one field are equal; task references compare by their Name
FieldEqual(f, x, y) ==
    IF f \in RefFields
    THEN (x = Nil /\ y = Nil) \/ (x # Nil /\ y # Nil /\ x[1].Name = y[1].Name)
    ELSE x = y

\* The field-wise diff of desired des against actual act (Nil on create):
\* a field that differs carries the desired value, the others stay zero
BuildChanges(act, des) ==
    [f \in Fields \cup {"labelFingerprint"} |->
        IF f = "labelFingerprint" THEN Nil
        ELSE IF act # Nil /\ FieldEqual(f, act[1][f], des[f]) THEN ZeroRule[f]
        ELSE des[f]]

CheckChangesNilOnly(des) == IF des.Name = Nil THEN "RequiredField" ELSE "nil"
\* CheckChanges, lines 135-140
CheckChanges(des) == IF ValueOf(des.Name) = "" THEN "RequiredField" ELSE "nil"

\* ------------------------------------------- RenderGCE, request body
AddressFindOutcomes == {"error", "none", "noip", "found"}

\* lines 163-172: o.Target, o.BackendService, or the both-targets error
TargetOf(des) == IF des.TargetPool # Nil THEN TargetPoolURL(des.TargetPool[1]) ELSE EmptyURL
TargetConflictNever(des) == FALSE
TargetConflict(des) == des.BackendService # Nil /\ TargetOf(des) # EmptyURL

\* lines 174-190: the IP of the Address reference; find is the outcome of
\* e.IPAddress.find when the reference carries no IP itself
ResolveIP(des, find) ==
    IF des.IPAddress = Nil THEN [err |-> FALSE, ip |-> ""]
    ELSE IF ValueOf(des.IPAddress[1].IPAddress) # ""
         THEN [err |-> FALSE, ip |-> ValueOf(des.IPAddress[1].IPAddress)]
    ELSE IF find = "error" THEN [err |-> TRUE, ip |-> ""]
    ELSE IF find = "none" THEN [err |-> TRUE, ip |-> ""]
    ELSE IF find = "noip" THEN [err |-> TRUE, ip |-> ""]
    ELSE [err |-> FALSE, ip |-> AddrIP]

\* lines 167-177: e.IPAddress.find is called, a cloud read (the both-targets
\* error returns before it)
LooksUpAddress(des) ==
    /\ des.IPAddress # Nil /\ ValueOf(des.IPAddress[1].IPAddress) = ""
    /\ ~TargetConflict(des)

IPConflictNever(des, ip) == FALSE
\* lines 191-193: both a resolved IP and a rule-managed IP
IPConflict(des, ip) == ip # "" /\ des.RuleIPAddress # Nil

\* lines 206-212: e.Network.Project is read although only e.Subnetwork was tested
SubnetDerefsNil(des) == des.Subnetwork # Nil /\ des.Network = Nil

\* lines 147-212: the request body o, or the error / crash that ends the call
BuildRequest(des, find) ==
    LET res == ResolveIP(des, find)
        ip == IF des.RuleIPAddress # Nil THEN des.RuleIPAddress[1] ELSE res.ip
        netProject == IF des.Network # Nil /\ des.Network[1].Project # Nil
                      THEN des.Network[1].Project[1] ELSE Project
        o == [Name |-> ValueOf(des.Name),
              IPProtocol |-> des.IPProtocol,
              NetworkTier |-> "PREMIUM",
              PortRange |-> ValueOf(des.PortRange),
              Ports |-> des.Ports,
              LoadBalancingScheme |-> ValueOf(des.LoadBalancingScheme),
              Target |-> TargetOf(des),
              BackendService |-> IF des.BackendService # Nil
                                 THEN BackendServiceURL(des.BackendService[1], des.Region)
                                 ELSE EmptyURL,
              IPAddress |-> ip,
              Network |-> IF des.Network # Nil
                          THEN NetworkURL(des.Network[1], netProject) ELSE EmptyURL,
              Subnetwork |-> IF des.Subnetwork # Nil
                             THEN SubnetURL(des.Subnetwork[1], netProject, CloudRegion)
                             ELSE EmptyURL]
    IN  IF TargetConflict(des) THEN [status |-> "error", o |-> Nil]
        ELSE IF res.err THEN [status |-> "error", o |-> Nil]
        ELSE IF IPConflict(des, res.ip) THEN [status |-> "error", o |-> Nil]
        ELSE IF SubnetDerefsNil(des) THEN [status |-> "panic", o |-> Nil]
        ELSE [status |-> "ok", o |-> Ptr(o)]

\* lines 233-236 and 248-251: the RegionSetLabelsRequest of each path
CreateLabelsRequestZeroToken(r, des) == [LabelFingerprint |-> Nil, Labels |-> des.Labels]
CreateLabelsRequest(r, des) == [LabelFingerprint |-> r.LabelFingerprint, Labels |-> des.Labels]
UpdateLabelsRequestZeroToken(act, des) == [LabelFingerprint |-> Nil, Labels |-> des.Labels]
UpdateLabelsRequest(act, des) == [LabelFingerprint |-> act.labelFingerprint, Labels |-> des.Labels]

\* line 217, 228, 237, 252: the region RenderGCE addresses the rule under
RenderRegion(des) == des.Region

\* line 226: the create path labels the rule when e.Labels is not nil
CreateSetsLabels(des) == des.Labels # Nil

UpdateResultAlwaysNil(ch) == "nil"
\* lines 261-266: the result of the update path once the labels are applied
UpdateResult(ch) == IF [ch EXCEPT !.Labels = Nil] = ZeroRule THEN "nil" ELSE "error"

\* ------------------------------------------- the compute API (environment)
\* The live rule as a Get returns it
LiveRule(region) ==
    LET r == rules[region][1] IN [r EXCEPT !.LabelFingerprint = Fingerprint(r.Labels)]
HasRule(region) == region \in StoreRegions /\ rules[region] # NoRule

GetOutcomes(region) ==
    IF region \notin StoreRegions THEN {"invalid"}
    ELSE IF HasRule(region) /\ ValueOf(e.Name) # "" THEN {"ok", "error"}
    ELSE {"notfound", "error"}
InsertOutcomes(region) ==
    IF region \notin StoreRegions THEN {"invalid"}
    ELSE IF HasRule(region) THEN {"conflict", "error"}
    ELSE {"ok", "error"}
SetLabelsOutcomes(region, req) ==
    IF region \notin StoreRegions THEN {"invalid"}
    ELSE IF ~HasRule(region) THEN {"notfound", "error"}
    ELSE IF req.LabelFingerprint # Fingerprint(rules[region][1].Labels) THEN {"conflict", "error"}
    ELSE {"ok", "error"}
WaitOutcomes == {"ok", "error"}
\* The rule the cloud stores for request body o
NewRule(o) ==
    [Name |-> o.Name, IPProtocol |-> o.IPProtocol, NetworkTier |-> o.NetworkTier,
     PortRange |-> o.PortRange, Ports |-> o.Ports,
     LoadBalancingScheme |-> o.LoadBalancingScheme, Target |-> o.Target,
     BackendService |-> o.BackendService,
     IPAddress |-> IF o.IPAddress = "" THEN EphemeralIP ELSE o.IPAddress,
     Network |-> o.Network, Subnetwork |-> o.Subnetwork,
     Labels |-> {}, LabelFingerprint |-> Fingerprint({})]

\* &compute.ForwardingRule{}
ZeroRequest ==
    [Name |-> "", IPProtocol |-> "", NetworkTier |-> "", PortRange |-> "", Ports |-> <<>>,
     LoadBalancingScheme |-> "", Target |-> EmptyURL, BackendService |-> EmptyURL,
     IPAddress |-> "", Network |-> EmptyURL, Subnetwork |-> EmptyURL]

\* A cloud call as it is logged: the fingerprint and labels it carries (a
\* Get: the fingerprint the cloud returned)
Call(op, out, tok, labels) == [op |-> op, out |-> out, token |-> tok, labels |-> labels]
Faulty(out) == out = "error"
NoteFault(out) == [hist EXCEPT !.fault = @ \/ Faulty(out)]
\* The history at the start of a pass that follows one with path pp, result pr.
\* findOut, findLookup, findErr: the answer to Find's Get, to its address
\* lookup, and the error Find returned; request: how RenderGCE's building of
\* the request body ended; lookup: it looked the Address up; readLabels: the labels of the rule when its fingerprint was read;
\* before, after: its labels right before and after the SetLabels call;
\* prevCalls: the cloud calls of the previous pass
FreshHist(pp, pr) ==
    [prevPath |-> pp, prevResult |-> pr, fault |-> FALSE,
     findOut |-> "none", findLookup |-> "none", findErr |-> "none",
     request |-> "none", lookup |-> FALSE, readLabels |-> Nil, before |-> Nil,
     after |-> Nil, prevCalls |-> <<>>]
\* The history h after RenderGCE built the request body of des, with status
NoteRequest(h, des, status) ==
    [h EXCEPT !.request = status, !.lookup = LooksUpAddress(des)]
\* The labels of the rule of a region, Nil when there is none
LabelsAt(region) == IF HasRule(region) THEN Ptr(rules[region][1].Labels) ELSE Nil
\* The history after a SetLabels call answered out
NoteSetLabels(region, out, labels) ==
    [NoteFault(out) EXCEPT !.before = LabelsAt(region),
                           !.after = IF out = "ok" THEN labels ELSE LabelsAt(region)]

FindReturnNotFoundIsError(out, lookup, r) ==
    IF out # "ok" \/ lookup # "ok" THEN [actual |-> Nil, err |-> "error"]
    ELSE [actual |-> Ptr(FindActual(r, findAddressByIP(r.IPAddress))), err |-> "nil"]
\* Find, lines 72-128: what it returns for the answer out of the Get, the
\* answer lookup of findAddressByIP, and the live rule r
FindReturn(out, lookup, r) ==
    IF out = "notfound" THEN [actual |-> Nil, err |-> "nil"]
    ELSE IF out # "ok" THEN [actual |-> Nil, err |-> "error"]
    ELSE IF lookup # "ok" THEN [actual |-> Nil, err |-> "error"]
    ELSE [actual |-> Ptr(FindActual(r, findAddressByIP(r.IPAddress))), err |-> "nil"]

\* The desired rules a run is started with
DesiredRules ==
    {ForwardingRule(n, tp, ip, rip, net, sub, bs, reg, lab) :
        n \in NameValues, tp \in TargetPoolValues, ip \in AddressValues,
        rip \in RuleIPValues, net \in NetworkValues, sub \in SubnetValues,
        bs \in BackendServiceValues, reg \in RegionValues, lab \in LabelValues}

GCEInit ==
    /\ e \in DesiredRules
    /\ rules = [r \in StoreRegions |-> NoRule]
    /\ pc = "idle"
    /\ pass = 1
    /\ a = Nil
    /\ changes = ZeroRule
    /\ labelsReq = Nil
    /\ calls = <<>>
    /\ result = "none"
    /\ path = "none"
    /\ hist = FreshHist("none", "none")
    /\ extEdits = 0
    /\ resources = Nil

\* The pass ends with result res
EndPass(res) ==
    /\ result' = res
    /\ pc' = IF res = "panic" THEN "crashed" ELSE "done"

\* Find, lines 68-129
Find ==
    /\ pc = "idle"
    /\ path' = "find"
    /\ \E out \in GetOutcomes(FindRegion) :
         \E lookup \in IF out = "ok" /\ LiveRule(FindRegion).IPAddress # ""
                       THEN {"ok", "error"} ELSE {"ok"} :
           LET f == FindReturn(out, lookup,
                               IF out = "ok" THEN LiveRule(FindRegion) ELSE NewRule(ZeroRequest))
           IN  /\ hist' = [hist EXCEPT !.fault = @ \/ Faulty(out) \/ Faulty(lookup),
                                        !.findOut = out, !.findLookup = lookup,
                                        !.findErr = f.err,
                                        !.readLabels = IF out = "ok" THEN LabelsAt(FindRegion)
                                                       ELSE Nil]
               /\ a' = f.actual
               /\ IF f.err = "nil" THEN pc' = "found" /\ result' = result
                  ELSE EndPass("error")
    /\ UNCHANGED <<e, rules, pass, changes, labelsReq, calls, extEdits>>
    /\ UNCHANGED <<resources, lbVars>>

\* The orchestrator between Find and Render: the diff, then CheckChanges
RunDelta ==
    /\ pc = "found"
    /\ changes' = BuildChanges(a, e)
    /\ IF changes' = ZeroRule
       THEN path' = "norender" /\ EndPass("nil")
       ELSE IF CheckChanges(e) # "nil"
       THEN path' = "check" /\ EndPass("error")
       ELSE path' = path /\ pc' = "render" /\ result' = result
    /\ UNCHANGED <<e, rules, pass, a, labelsReq, calls, hist, extEdits>>
    /\ UNCHANGED <<resources, lbVars>>

\* RenderGCE, lines 142-220 and 246-255: the request body, then the first call
RenderGCE ==
    /\ pc = "render"
    /\ path' = IF a = Nil THEN "create" ELSE "update"
    /\ \E find \in IF LooksUpAddress(e) THEN AddressFindOutcomes ELSE {"found"} :
         LET req == BuildRequest(e, find) IN
         IF req.status # "ok"
         THEN /\ EndPass(req.status)
              /\ hist' = NoteRequest(NoteFault(find), e, req.status)
              /\ UNCHANGED <<rules, calls, changes>>
         ELSE IF a = Nil
         THEN \E out \in InsertOutcomes(RenderRegion(e)) :
                /\ calls' = Append(calls, Call("Insert", out, Nil, Nil))
                /\ hist' = NoteRequest(NoteFault(out), e, req.status)
                /\ changes' = changes
                /\ IF out = "ok"
                   THEN /\ rules' = [rules EXCEPT ![RenderRegion(e)] = Ptr(NewRule(req.o[1]))]
                        /\ pc' = "waitInsert" /\ result' = result
                   ELSE rules' = rules /\ EndPass("error")
         ELSE IF changes.Labels # Nil
         THEN LET lreq == UpdateLabelsRequest(a[1], e) IN
              \E out \in SetLabelsOutcomes(RenderRegion(e), lreq) :
                /\ calls' = Append(calls, Call("SetLabels", out, lreq.LabelFingerprint, lreq.Labels))
                /\ hist' = NoteRequest(NoteSetLabels(RenderRegion(e), out, lreq.Labels),
                                        e, req.status)
                /\ changes' = changes
                /\ IF out = "ok"
                   THEN /\ rules' = [rules EXCEPT ![RenderRegion(e)] =
                                        Ptr([@[1] EXCEPT !.Labels = lreq.Labels[1]])]
                        /\ pc' = "waitLabels" /\ result' = result
                   ELSE rules' = rules /\ EndPass("error")
         ELSE /\ EndPass(UpdateResult(changes))
              /\ hist' = NoteRequest(hist, e, req.status)
              /\ UNCHANGED <<rules, calls, changes>>
    /\ UNCHANGED <<e, pass, a, labelsReq, extEdits>>
    /\ UNCHANGED <<resources, lbVars>>

\* RenderGCE, lines 222-226: wait for the insert operation
WaitInsert ==
    /\ pc = "waitInsert"
    /\ \E out \in WaitOutcomes :
         /\ calls' = Append(calls, Call("WaitForOp", out, Nil, Nil))
         /\ hist' = NoteFault(out)
         /\ IF out # "ok" THEN EndPass("error")
            ELSE IF CreateSetsLabels(e) THEN pc' = "get" /\ result' = result
            ELSE EndPass("nil")
    /\ UNCHANGED <<e, rules, pass, a, changes, labelsReq, path, extEdits>>
    /\ UNCHANGED <<resources, lbVars>>

\* RenderGCE, lines 228-231: read the created rule for its fingerprint
GetCreated ==
    /\ pc = "get"
    /\ \E out \in GetOutcomes(RenderRegion(e)) :
         /\ calls' = Append(calls, Call("Get", out,
                               IF out = "ok" THEN Fingerprint(rules[RenderRegion(e)][1].Labels)
                               ELSE Nil, Nil))
         /\ hist' = [NoteFault(out) EXCEPT !.readLabels = IF out = "ok"
                                                           THEN LabelsAt(RenderRegion(e))
                                                           ELSE @]
         /\ IF out = "ok"
            THEN /\ labelsReq' = Ptr(CreateLabelsRequest(LiveRule(RenderRegion(e)), e))
                 /\ pc' = "setLabels" /\ result' = result
            ELSE labelsReq' = labelsReq /\ EndPass("error")
    /\ UNCHANGED <<e, rules, pass, a, changes, path, extEdits>>
    /\ UNCHANGED <<resources, lbVars>>

\* RenderGCE, lines 233-240: label the created rule
SetLabelsCreated ==
    /\ pc = "setLabels"
    /\ LET lreq == labelsReq[1] IN
       \E out \in SetLabelsOutcomes(RenderRegion(e), lreq) :
         /\ calls' = Append(calls, Call("SetLabels", out, lreq.LabelFingerprint, lreq.Labels))
         /\ hist' = NoteSetLabels(RenderRegion(e), out, lreq.Labels)
         /\ IF out = "ok"
            THEN /\ rules' = [rules EXCEPT ![RenderRegion(e)] =
                                 Ptr([@[1] EXCEPT !.Labels = lreq.Labels[1]])]
                 /\ pc' = "waitLabels" /\ result' = result
            ELSE rules' = rules /\ EndPass("error")
    /\ UNCHANGED <<e, pass, a, changes, labelsReq, path, extEdits>>
    /\ UNCHANGED <<resources, lbVars>>

\* RenderGCE, lines 242-244 and 257-266: wait for the set-labels operation
WaitLabels ==
    /\ pc = "waitLabels"
    /\ \E out \in WaitOutcomes :
         /\ calls' = Append(calls, Call("WaitForOp", out, Nil, Nil))
         /\ hist' = NoteFault(out)
         /\ IF out # "ok" THEN changes' = changes /\ EndPass("error")
            ELSE IF path = "create" THEN changes' = changes /\ EndPass("nil")
            ELSE /\ changes' = [changes EXCEPT !.Labels = Nil]
                 /\ EndPass(UpdateResult(changes))
    /\ UNCHANGED <<e, rules, pass, a, labelsReq, path, extEdits>>
    /\ UNCHANGED <<resources, lbVars>>

\* The orchestrator runs the task again
NextPass ==
    /\ pc = "done"
    /\ pass < MaxPasses
    /\ pass' = pass + 1
    /\ pc' = "idle"
    /\ hist' = [FreshHist(path, result) EXCEPT !.prevCalls = calls]
    /\ a' = Nil /\ changes' = ZeroRule /\ labelsReq' = Nil /\ calls' = <<>>
    /\ result' = "none" /\ path' = "none"
    /\ UNCHANGED <<e, rules, extEdits>>
    /\ UNCHANGED <<resources, lbVars>>

\* Someone else edits the labels of the live rule
ExternalEdit ==
    /\ extEdits < MaxExternal
    /\ pc \notin {"crashed"}
    /\ \E r \in StoreRegions, l \in {{}, ProdLabels, ExtLabels} :
         /\ rules[r] # NoRule
         /\ l # rules[r][1].Labels
         /\ rules' = [rules EXCEPT ![r] = Ptr([@[1] EXCEPT !.Labels = l])]
    /\ extEdits' = extEdits + 1
    /\ UNCHANGED <<e, pc, pass, a, changes, labelsReq, calls, result, path, hist>>
    /\ UNCHANGED <<resources, lbVars>>

\* ------------------------------------------- RenderTerraform
\* terraformWriter.LiteralSelfLink / TerraformAddress: a symbolic link to the
\* resource of a kind and name; LiteralFromStringValue: a literal string
LiteralSelfLink(kind, ref) == <<"link", kind, ValueOf(ref.Name)>>
LiteralFromStringValue(v) == <<"literal", v>>

\* lines 314-318: the ip_address of the record
TerraformIPAddress(des) ==
    IF des.IPAddress # Nil THEN Ptr(LiteralSelfLink("google_compute_address", des.IPAddress[1]))
    ELSE IF des.RuleIPAddress # Nil THEN Ptr(LiteralFromStringValue(des.RuleIPAddress[1]))
    ELSE Nil

\* lines 289-318: the terraformForwardingRule built from the desired rule
TerraformRecord(des) ==
    [Name |-> ValueOf(des.Name),
     IPProtocol |-> des.IPProtocol,
     LoadBalancingScheme |-> des.LoadBalancingScheme,
     Ports |-> des.Ports,
     PortRange |-> des.PortRange,
     Labels |-> des.Labels,
     Target |-> IF des.TargetPool # Nil
                THEN Ptr(LiteralSelfLink("google_compute_target_pool", des.TargetPool[1]))
                ELSE Nil,
     Network |-> IF des.Network # Nil
                 THEN Ptr(LiteralSelfLink("google_compute_network", des.Network[1])) ELSE Nil,
     Subnetwork |-> IF des.Subnetwork # Nil
                    THEN Ptr(LiteralSelfLink("google_compute_subnetwork", des.Subnetwork[1]))
                    ELSE Nil,
     BackendService |-> IF des.BackendService # Nil
                        THEN Ptr(LiteralSelfLink("google_compute_backend_service",
                                                 des.BackendService[1]))
                        ELSE Nil,
     IPAddress |-> TerraformIPAddress(des)]

\* t.RenderResource: the renderer takes the record or fails
RenderResourceOutcomes == {"ok", "error"}

\* RenderTerraform, lines 286-321
RenderTerraform ==
    /\ pc = "render"
    /\ path' = "terraform"
    /\ \E out \in RenderResourceOutcomes :
         /\ resources' = IF out = "ok" THEN Ptr(TerraformRecord(e)) ELSE resources
         /\ hist' = NoteFault(out)
         /\ EndPass(IF out = "ok" THEN "nil" ELSE "error")
    /\ UNCHANGED <<e, rules, pass, a, changes, labelsReq, calls, extEdits>>
    /\ UNCHANGED lbVars

\* ------------------------------------- the task methods called on their own
\* The rule "rule-a" the cloud holds already, with labels l: made earlier
\* from a configuration with a target pool and no address
HeldRule(l) ==
    [NewRule(BuildRequest(ForwardingRule(Ptr("rule-a"), Ptr([Name |-> Ptr("tp")]), Nil, Nil,
                                         Nil, Nil, Nil, CloudRegion, Nil),
                          "found").o[1])
        EXCEPT !.Labels = l]
HeldLabels == {{}, ProdLabels, ExtLabels}

\* The changesets the methods are called with for (act, des): the diff, and
\* the one that carries the desired labels and nothing else
ChangesetsFor(act, des) ==
    IF act = Nil THEN {BuildChanges(act, des)}
    ELSE {BuildChanges(act, des), [ZeroRule EXCEPT !.Labels = des.Labels]}

\* CheckChanges and a Render method are called with (a, e, changes): a is what
\* Find returns from a cloud that holds rule-a or nothing
CallInit ==
    /\ e \in DesiredRules
    /\ \E held \in BOOLEAN, l \in HeldLabels :
         /\ held => ValueOf(e.Name) = "rule-a"
         /\ ~held => l = {}
         /\ rules = [r \in StoreRegions |->
                        IF held /\ r = FindRegion THEN Ptr(HeldRule(l)) ELSE NoRule]
         /\ a = IF held THEN FindReturn("ok", "ok", LiveRule(FindRegion)).actual ELSE Nil
         /\ hist = [FreshHist("none", "none")
                       EXCEPT !.findOut = IF held THEN "ok" ELSE "notfound",
                              !.findLookup = "ok", !.findErr = "nil",
                              !.readLabels = IF held THEN Ptr(l) ELSE Nil]
    /\ changes \in ChangesetsFor(a, e)
    /\ pc = "check"
    /\ pass = 1
    /\ labelsReq = Nil
    /\ calls = <<>>
    /\ result = "none"
    /\ path = "find"
    /\ extEdits = 0
    /\ resources = Nil

\* The orchestrator calls CheckChanges before it renders, lines 135-140
CallCheckChanges ==
    /\ pc = "check"
    /\ IF CheckChanges(e) # "nil"
       THEN path' = "check" /\ EndPass("error")
       ELSE path' = path /\ pc' = "render" /\ result' = result
    /\ UNCHANGED <<e, rules, pass, a, changes, labelsReq, calls, hist, extEdits>>
    /\ UNCHANGED <<resources, lbVars>>

\* =================================================== OpenStack adapters
MemberSteps == 10       \* memberBackoff.Steps

DeleteOps == {"deleteMonitor", "deletePool", "deleteListener", "deleteLB"}
CreateOps == {"createPoolMonitor", "createLB", "createPool", "createListener"}
GetOps == {"getLB", "getPool", "getPoolMember"}
ListOps == {"listMonitors", "listLBs", "listPoolMembers", "listPools", "listListeners"}
AdapterOps == DeleteOps \cup CreateOps \cup GetOps \cup ListOps
                \cup {"getLBStats", "updateMemberInPool", "associateToPool"}
Kinds == {"monitor", "pool", "listener", "lb"}

\* The resource kind an adapter addresses
KindOf(op) ==
    CASE op \in {"deleteMonitor", "createPoolMonitor"} -> "monitor"
      [] op \in {"deletePool", "createPool", "getPool"} -> "pool"
      [] op \in {"deleteListener", "createListener"} -> "listener"
      [] OTHER -> "lb"

StepsOfOneMore(op) ==
    IF op = "updateMemberInPool" THEN MemberSteps + 1
    ELSE IF op \in DeleteOps THEN DeleteSteps + 1
    ELSE IF op \in {"createPoolMonitor", "createLB", "createPool", "associateToPool"}
         THEN WriteSteps + 1
    ELSE ReadSteps + 1
\* The wait.Backoff each adapter hands to vfs.RetryWithBackoff
StepsOf(op) ==
    IF op = "updateMemberInPool" THEN MemberSteps
    ELSE IF op \in DeleteOps THEN DeleteSteps
    ELSE IF op \in {"createPoolMonitor", "createLB", "createPool", "associateToPool"}
         THEN WriteSteps
    ELSE ReadSteps

\* isNotFound
isNotFound(err) == err = "notfound"
\* gophercloud.ResponseCodeIs(err, http.StatusConflict)
isConflict(err) == err = "conflict"
\* The error a call's outcome carries ("nil" for none)
ErrOf(out) == IF out = "ok" THEN "nil" ELSE out

NilClientErrSkipped(op) == "nil"
\* The if at the top of every adapter: the result when the client handle is nil
NilClientErr(op) ==
    IF op \in {"listLBs", "getLBStats"} THEN "nil" ELSE "unavailable"

\* Closures: (done, err) of one attempt, from the outcome of its API calls.
\* "wrapped" is an fmt.Errorf around the API error.
\* createPoolMonitor, createLB, createPool, createListener, getLBStats
CreateClosure(api) ==
    IF ErrOf(api) # "nil" THEN [done |-> FALSE, err |-> "wrapped"]
    ELSE [done |-> TRUE, err |-> "nil"]
\* getLB, getPool, getPoolMember: the API error is returned as it is
GetClosure(api) ==
    IF ErrOf(api) # "nil" THEN [done |-> FALSE, err |-> ErrOf(api)]
    ELSE [done |-> TRUE, err |-> "nil"]
\* listMonitors, listLBs, listPoolMembers, listPools, listListeners
ListClosure(pages, extract) ==
    IF ErrOf(pages) # "nil" THEN [done |-> FALSE, err |-> "wrapped"]
    ELSE IF ErrOf(extract) # "nil" THEN [done |-> FALSE, err |-> "wrapped"]
    ELSE [done |-> TRUE, err |-> "nil"]
DeleteClosureSuccessDone(api) ==
    IF ErrOf(api) # "nil" /\ ~isNotFound(ErrOf(api)) THEN [done |-> FALSE, err |-> "wrapped"]
    ELSE [done |-> TRUE, err |-> "nil"]
DeleteClosureNotFoundFails(api) ==
    IF ErrOf(api) # "nil" THEN [done |-> FALSE, err |-> "wrapped"]
    ELSE [done |-> FALSE, err |-> "nil"]
\* deleteMonitor, deletePool, deleteListener, deleteLB
DeleteClosure(api) ==
    IF ErrOf(api) # "nil" /\ ~isNotFound(ErrOf(api)) THEN [done |-> FALSE, err |-> "wrapped"]
    ELSE IF isNotFound(ErrOf(api)) THEN [done |-> TRUE, err |-> "nil"]
    ELSE [done |-> FALSE, err |-> "nil"]
UpdateMemberClosureConflictFatal(api) ==
    IF ErrOf(api) # "nil"
    THEN IF isNotFound(ErrOf(api)) THEN [done |-> TRUE, err |-> "nil"]
         ELSE [done |-> FALSE, err |-> "wrapped"]
    ELSE [done |-> TRUE, err |-> "nil"]
UpdateMemberClosureNotFoundFails(api) ==
    IF ErrOf(api) # "nil"
    THEN IF isConflict(ErrOf(api)) THEN [done |-> FALSE, err |-> "nil"]
         ELSE [done |-> FALSE, err |-> "wrapped"]
    ELSE [done |-> TRUE, err |-> "nil"]
\* updateMemberInPool
UpdateMemberClosure(api) ==
    IF ErrOf(api) # "nil"
    THEN IF isNotFound(ErrOf(api)) THEN [done |-> TRUE, err |-> "nil"]
         ELSE IF isConflict(ErrOf(api)) THEN [done |-> FALSE, err |-> "nil"]
         ELSE [done |-> FALSE, err |-> "wrapped"]
    ELSE [done |-> TRUE, err |-> "nil"]
AssociateCreatesAlways(get) == TRUE
AssociateCreatesOnFound(get) == get \in {"ok", "notfound"}
\* associateToPool: whether the attempt goes on to CreateMember, and its result
AssociateCreates(get) == ErrOf(get) # "nil"
AssociateClosure(get, create) ==
    IF AssociateCreates(get)
    THEN IF ErrOf(create) # "nil" THEN [done |-> FALSE, err |-> "wrapped"]
         ELSE [done |-> TRUE, err |-> "nil"]
    ELSE [done |-> TRUE, err |-> "nil"]

Closure(op, api1, api2) ==
    CASE op \in DeleteOps -> DeleteClosure(api1)
      [] op \in GetOps -> GetClosure(api1)
      [] op \in ListOps -> ListClosure(api1, api2)
      [] op = "updateMemberInPool" -> UpdateMemberClosure(api1)
      [] op = "associateToPool" -> AssociateClosure(api1, api2)
      [] OTHER -> CreateClosure(api1)

\* vfs.RetryWithBackoff: after attempt number i returned done, run another one
RetryAgain(steps, i, done) == ~done /\ i < steps

FinishNotDoneDropsErr(done, err) ==
    IF ~done /\ err = "nil" THEN "timeout" ELSE "nil"
FinishErrFirstNoTimeout(done, err) ==
    IF err # "nil" THEN err ELSE "nil"
\* What the adapter returns from (done, err) of RetryWithBackoff.
\* if !done { if err == nil { err = wait.ErrWaitTimeout }; return err }; return nil
FinishNotDone(done, err) ==
    IF ~done THEN (IF err = "nil" THEN "timeout" ELSE err) ELSE "nil"
\* if err != nil { return err } else if done { return nil } else { ErrWaitTimeout }
FinishErrFirst(done, err) ==
    IF err # "nil" THEN err ELSE IF done THEN "nil" ELSE "timeout"
Finish(op, done, err) ==
    IF op \in DeleteOps \cup {"createLB"} THEN FinishErrFirst(done, err)
    ELSE FinishNotDone(done, err)

\* ------------------------------------------------ Octavia (environment)
\* The outcomes the first API call of an attempt of op can have
FirstOutcomes(op) ==
    CASE op \in DeleteOps ->
            IF exists[KindOf(op)] THEN {"ok", "conflict", "error"} ELSE {"notfound", "error"}
      [] op \in {"getLB", "getPool", "getLBStats"} ->
            IF exists[KindOf(op)] THEN {"ok", "error"} ELSE {"notfound", "error"}
      [] op \in {"getPoolMember", "associateToPool"} ->
            IF members > 0 THEN {"ok", "error"} ELSE {"notfound", "error"}
      [] op = "updateMemberInPool" ->
            IF members > 0 THEN {"ok", "conflict", "error"} ELSE {"notfound", "error"}
      [] OTHER -> {"ok", "error"}
\* The outcomes of the second call of an attempt, "none" when it makes none
SecondOutcomes(op, api1) ==
    IF op \in ListOps /\ api1 = "ok" THEN {"ok", "error"}
    ELSE IF op = "associateToPool" /\ AssociateCreates(api1)
         THEN (IF members < MaxMembers THEN {"ok", "error"} ELSE {"conflict", "error"})
    ELSE {"none"}
\* ExtractX decodes pages already fetched: it is no API call
ApiCallsOf(op, api2) == IF api2 = "none" \/ op \in ListOps THEN 1 ELSE 2
ExistsAfter(op, api1) ==
    IF op \in DeleteOps /\ api1 = "ok" THEN [exists EXCEPT ![KindOf(op)] = FALSE]
    ELSE IF op \in CreateOps /\ api1 = "ok" THEN [exists EXCEPT ![KindOf(op)] = TRUE]
    ELSE exists
MembersAfter(op, api2) ==
    IF op = "associateToPool" /\ api2 = "ok" THEN members + 1 ELSE members
Fault(out) == out \in {"error", "conflict"}

NoCall == [op |-> "none"]
\* What is remembered of the call before this one: only a call of the same
\* adapter right before it counts
PrevOf(op) ==
    IF ret.op = op
    THEN [same |-> TRUE, err |-> ret.err, fault |-> ret.fault,
          ext |-> ret.ext \/ ret.extAfter, attempts |-> ret.attempts,
          existed |-> ret.existed, membersBefore |-> ret.membersBefore]
    ELSE [same |-> FALSE, err |-> "nil", fault |-> FALSE, ext |-> FALSE, attempts |-> 0,
          existed |-> FALSE, membersBefore |-> 0]
\* The record of a completed call: what it returned, its final attempt (done,
\* lastErr, api1, api2), and what happened on the way
Returned(op, err, done, lastErr, attempts, apiCalls, api1, api2, all409, seen409, fault, ext, prev, existed, membersBefore, membersAfter, doneBefore) ==
    [op |-> op, err |-> err, done |-> done, lastErr |-> lastErr, attempts |-> attempts,
     apiCalls |-> apiCalls, api1 |-> api1, api2 |-> api2, all409 |-> all409,
     seen409 |-> seen409, fault |-> fault, ext |-> ext, extAfter |-> FALSE, prev |-> prev,
     existed |-> existed, membersBefore |-> membersBefore, membersAfter |-> membersAfter,
     doneBefore |-> doneBefore]

LBInit ==
    /\ lbClient \in BOOLEAN
    /\ exists = [k \in Kinds |-> FALSE]
    /\ members = 0
    /\ lpc = "idle"
    /\ cur = NoCall
    /\ ret = NoCall

\* An adapter is called: the nil-client check, then into RetryWithBackoff
Invoke(op) ==
    /\ lpc = "idle"
    /\ LET existed == op \in DeleteOps /\ exists[KindOf(op)] IN
       IF ~lbClient
       THEN /\ ret' = Returned(op, NilClientErr(op), FALSE, "nil", 0, 0, "none", "none",
                               FALSE, FALSE, FALSE, FALSE, PrevOf(op), existed, members,
                               members, FALSE)
            /\ UNCHANGED <<lpc, cur>>
       ELSE /\ lpc' = "retry"
            /\ cur' = [op |-> op, i |-> 0, apiCalls |-> 0, api1 |-> "none", all409 |-> TRUE,
                       seen409 |-> FALSE, fault |-> FALSE, ext |-> FALSE, prev |-> PrevOf(op),
                       existed |-> existed, membersBefore |-> members, doneSeen |-> FALSE]
            /\ ret' = NoCall
    /\ UNCHANGED <<lbClient, exists, members>>
    /\ UNCHANGED gceVars

\* One attempt of the closure under RetryWithBackoff; the last one returns
Attempt ==
    /\ lpc = "retry"
    /\ \E api1 \in FirstOutcomes(cur.op) : \E api2 \in SecondOutcomes(cur.op, api1) :
         LET c == Closure(cur.op, api1, api2)
             i == cur.i + 1
             n == cur.apiCalls + ApiCallsOf(cur.op, api2)
             all409 == cur.all409 /\ api1 = "conflict"
             seen409 == cur.seen409 \/ (i > 1 /\ cur.api1 = "conflict")
             fault == cur.fault \/ Fault(api1) \/ Fault(api2)
         IN  /\ exists' = ExistsAfter(cur.op, api1)
             /\ members' = MembersAfter(cur.op, api2)
             /\ IF RetryAgain(StepsOf(cur.op), i, c.done)
                THEN /\ cur' = [cur EXCEPT !.i = i, !.apiCalls = n, !.api1 = api1,
                                           !.all409 = all409, !.seen409 = seen409,
                                           !.fault = fault,
                                           !.doneSeen = @ \/ c.done]
                     /\ UNCHANGED <<lpc, ret>>
                ELSE /\ ret' = Returned(cur.op, Finish(cur.op, c.done, c.err), c.done, c.err,
                                        i, n, api1, api2, all409, seen409, fault, cur.ext,
                                        cur.prev,
                                        cur.existed, cur.membersBefore, members',
                                        cur.doneSeen)
                     /\ lpc' = "idle"
                     /\ cur' = NoCall
    /\ UNCHANGED lbClient
    /\ UNCHANGED gceVars

\* Another agent removes a membership of the server from the pool
ExternalRemoveMember ==
    /\ members > 0
    /\ members' = members - 1
    /\ IF lpc = "retry"
       THEN cur' = [cur EXCEPT !.ext = TRUE] /\ ret' = ret
       ELSE /\ cur' = cur
            /\ ret' = IF ret = NoCall THEN ret ELSE [ret EXCEPT !.extAfter = TRUE]
    /\ UNCHANGED <<lbClient, exists, lpc>>
    /\ UNCHANGED gceVars

\* ============================================================ specifications
GCEIdle ==
    /\ e = ZeroRule /\ rules = [r \in StoreRegions |-> NoRule] /\ pc = "off" /\ pass = 0
    /\ a = Nil /\ changes = ZeroRule /\ labelsReq = Nil /\ calls = <<>> /\ result = "none"
    /\ path = "none" /\ hist = FreshHist("none", "none")
    /\ extEdits = 0 /\ resources = Nil
LBIdle ==
    /\ lbClient = FALSE /\ exists = [k \in Kinds |-> FALSE] /\ members = 0
    /\ lpc = "off" /\ cur = NoCall /\ ret = NoCall

GCENext ==
    \/ Find \/ RunDelta \/ RenderGCE \/ WaitInsert \/ GetCreated
    \/ SetLabelsCreated \/ WaitLabels \/ NextPass \/ ExternalEdit

LBNext ==
    \/ \E op \in AdapterOps : Invoke(op)
    \/ Attempt
    \/ ExternalRemoveMember

\* The reconciliation of one forwarding rule
InitGCE == GCEInit /\ LBIdle
SpecGCE == InitGCE /\ [][GCENext]_vars
\* The methods of the task called with arguments of their own
CallNext ==
    \/ CallCheckChanges \/ RenderGCE \/ RenderTerraform \/ WaitInsert \/ GetCreated
    \/ SetLabelsCreated \/ WaitLabels \/ ExternalEdit
InitCall == CallInit /\ LBIdle
SpecCall == InitCall /\ [][CallNext]_vars
\* Calls of the load-balancer adapters
InitLB == LBInit /\ GCEIdle
SpecLB == InitLB /\ [][LBNext]_vars

\* ==================================================================== claims
CreateSequence == <<"Insert", "WaitForOp", "Get", "SetLabels", "WaitForOp">>
MutatingCalls == {i \in 1..Len(calls) : calls[i].op \in {"Insert", "SetLabels"}}

\* C1: on the create path with non-empty desired labels RenderGCE issues
\* Insert, WaitForOp, Get, SetLabels, WaitForOp in this order, each call only
\* after the one before it succeeded; SetLabels carries the fingerprint the
\* Get returned (never the zero value) and the desired labels; a failed call
\* ends the invocation with an error, and nil is returned only after all five.
C1_CreateSequence ==
    (path = "create" /\ e.Labels # Nil /\ e.Labels # Ptr({})) =>
        /\ Len(calls) <= Len(CreateSequence)
        /\ \A i \in 1..Len(calls) : calls[i].op = CreateSequence[i]
        /\ \A i \in 1..(Len(calls) - 1) : calls[i].out = "ok"
        /\ Len(calls) >= 4 =>
              /\ calls[4].token # Nil
              /\ calls[4].token = calls[3].token
              /\ calls[4].labels = e.Labels
        /\ (calls # <<>> /\ calls[Len(calls)].out # "ok") => (result = "error" /\ pc = "done")
        /\ result = "nil" => (Len(calls) = 5 /\ calls[5].out = "ok")
C1_Witness ==
    /\ path = "create" /\ e.Labels = Ptr(ProdLabels)
    /\ result = "nil" /\ Len(calls) = 5
    /\ rules[e.Region][1].Labels = ProdLabels

\* C2: after a create that succeeded, with no external edit and no failing
\* cloud call, the next pass ends with an empty changeset, without Insert or
\* SetLabels, and without error.
C2_SecondPassNoOp ==
    (pc = "done" /\ hist.prevPath = "create" /\ hist.prevResult = "nil"
        /\ extEdits = 0 /\ ~hist.fault) =>
        (changes = ZeroRule /\ MutatingCalls = {} /\ result = "nil")

\* C10: on the create path a desired rule with both a TargetPool and a
\* BackendService, or with both an IPAddress reference and a RuleIPAddress,
\* ends in an error and no Insert (no cloud call at all) is issued.
C10_ExclusiveFields ==
    (path = "create" /\ ((e.TargetPool # Nil /\ e.BackendService # Nil)
                          \/ (e.IPAddress # Nil /\ e.RuleIPAddress # Nil))) =>
        (result = "error" /\ calls = <<>> /\ rules = [r \in StoreRegions |-> NoRule])
C10_Witness ==
    /\ path = "create" /\ e.TargetPool = Nil
    /\ e.IPAddress # Nil /\ e.IPAddress[1].IPAddress = Ptr(AddrIP) /\ e.RuleIPAddress # Nil
    /\ e.Region = CloudRegion /\ e.Subnetwork = Nil
    /\ result = "error" /\ calls = <<>> /\ ~hist.fault

\* Every cloud call RenderGCE issued so far in this pass succeeded
AllCallsOk == \A i \in 1..Len(calls) : calls[i].out = "ok"
\* The changeset carries nothing but (possibly) labels
LabelsOnly(ch) == [ch EXCEPT !.Labels = Nil] = ZeroRule

\* C11: on the update path, once the request body is built and the labels of
\* the changeset (if any) are applied by SetLabels and its wait, the Labels
\* field is cleared and RenderGCE returns nil when the changeset is then
\* entirely zero and an error when any other field is left; it returns nil
\* in no other case.
C11_UpdateResidual ==
    /\ (path = "update" /\ pc = "done" /\ hist.request = "ok" /\ AllCallsOk) =>
          /\ changes.Labels = Nil
          /\ Len(calls) \in {0, 2}
          /\ changes = ZeroRule => result = "nil"
          /\ changes # ZeroRule => result = "error"
    /\ (path = "update" /\ result = "nil") =>
          (changes = ZeroRule /\ AllCallsOk /\ hist.request = "ok")
C11_Witness ==
    /\ path = "update" /\ result = "nil" /\ Len(calls) = 2
    /\ e.Labels = Ptr(ProdLabels) /\ hist.before = Ptr(ExtLabels)
    /\ rules[CloudRegion][1].Labels = ProdLabels /\ changes = ZeroRule
C11_WitnessResidual ==
    /\ path = "update" /\ result = "error" /\ Len(calls) = 2 /\ AllCallsOk
    /\ changes.Labels = Nil /\ changes.Region = CloudRegion
    /\ rules[CloudRegion][1].Labels = ProdLabels /\ hist.before = Ptr({})

\* C12 as claimed: a desired rule with both an IPAddress reference and a
\* RuleIPAddress is rejected by RenderGCE and by RenderTerraform: the call
\* returns an error, issues no cloud call and renders no resource record.
C12_BothIPRejected ==
    (e.IPAddress # Nil /\ e.RuleIPAddress # Nil
        /\ path \in {"create", "update", "terraform"}) =>
        (result = "error" /\ calls = <<>> /\ (path = "terraform" => resources = Nil))

\* C13: Find returns a nil actual with a nil error exactly when its Get
\* answered not-found; any other failure of the Get, or of the address
\* lookup, makes it return an error; Find issues no mutating call.
C13_FindNotFound ==
    /\ hist.findOut = "notfound" => (hist.findErr = "nil" /\ a = Nil)
    /\ (hist.findErr = "nil" /\ a = Nil) => hist.findOut = "notfound"
    /\ (hist.findOut \in {"error", "invalid"} \/ hist.findLookup = "error") =>
          (hist.findErr = "error" /\ a = Nil /\ result = "error" /\ path = "find")
    /\ pc = "found" => (calls = <<>> /\ result = "none" /\ hist.findErr = "nil")
C13_Witness ==
    /\ pc = "found" /\ hist.findOut = "notfound" /\ a = Nil /\ hist.findErr = "nil"
    /\ pass = 2 /\ hist.prevPath = "create" /\ calls = <<>>
C13_WitnessLookupFails ==
    /\ hist.findOut = "ok" /\ hist.findLookup = "error" /\ a = Nil /\ result = "error"

\* CheckChanges returned nil / an error in this pass
CheckPassed == pc = "render" \/ path \in {"create", "update", "terraform"}
CheckFailed == path = "check"

\* C14: CheckChanges returns the required-field error when the desired Name
\* is nil or empty, and nil when it is not empty, whatever actual and the
\* changeset are; after the error nothing is rendered.
C14_CheckChangesName ==
    /\ CheckPassed => ValueOf(e.Name) # ""
    /\ CheckFailed => /\ ValueOf(e.Name) = ""
                      /\ result = "error" /\ pc = "done"
                      /\ calls = <<>> /\ resources = Nil
    /\ (pc # "check" /\ ValueOf(e.Name) # "") => CheckPassed
    /\ (pc # "check" /\ ValueOf(e.Name) = "") => CheckFailed
C14_Witness ==
    /\ CheckFailed /\ e.Name = Ptr("") /\ result = "error" /\ changes # ZeroRule
C14_WitnessPassed ==
    /\ pc = "render" /\ a # Nil /\ changes = ZeroRule /\ e.Name = Ptr("rule-a")

\* The SetLabels calls of this pass
SetLabelsCalls == {i \in 1..Len(calls) : calls[i].op = "SetLabels"}

\* C15: every SetLabels call carries the fingerprint of the labels read by
\* the Find that returned actual (update path) or by the follow-up Get
\* (create path); the call succeeds only if the rule still has the labels
\* that were read, and when an external edit changed them in between, the
\* cloud rejects the call, RenderGCE returns an error and the labels stay as
\* the external edit left them.
C15_FingerprintGuards ==
    \A i \in SetLabelsCalls :
        /\ hist.readLabels # Nil
        /\ calls[i].token = Fingerprint(hist.readLabels[1])
        /\ path = "update" => calls[i].token = a[1].labelFingerprint
        /\ path = "create" => (i = 4 /\ calls[3].op = "Get" /\ calls[i].token = calls[3].token)
        /\ calls[i].out = "ok" => hist.before = hist.readLabels
        /\ hist.before # hist.readLabels =>
              /\ calls[i].out # "ok" /\ Len(calls) = i
              /\ result = "error" /\ pc = "done"
              /\ hist.after = hist.before
C15_Witness ==
    /\ path = "update" /\ SetLabelsCalls = {1} /\ calls[1].out = "conflict"
    /\ extEdits = 1 /\ hist.readLabels = Ptr({}) /\ hist.before = Ptr(ExtLabels)
    /\ rules[CloudRegion][1].Labels = ExtLabels /\ result = "error"
C15_WitnessCreate ==
    /\ path = "create" /\ SetLabelsCalls = {4} /\ calls[4].out = "conflict"
    /\ extEdits = 1 /\ hist.readLabels = Ptr({}) /\ hist.before = Ptr(ExtLabels)
    /\ rules[e.Region][1].Labels = ExtLabels /\ result = "error"

\* C16 as claimed: on the update path RenderGCE makes no Address lookup and
\* no cloud call but at most one SetLabels and its wait, and a changeset that
\* carries only labels succeeds whenever those calls succeed.
C16_UpdateOnlySetLabels ==
    (path = "update" /\ pc = "done") =>
        /\ ~hist.lookup
        /\ Len(calls) <= 2
        /\ \A i \in 1..Len(calls) : calls[i].op = <<"SetLabels", "WaitForOp">>[i]
        /\ (LabelsOnly(changes) /\ AllCallsOk) => result = "nil"

\* The desired rule sets both fields of a mutually exclusive pair
BothTargets(des) == des.TargetPool # Nil /\ des.BackendService # Nil
BothIPs(des) == des.IPAddress # Nil /\ des.RuleIPAddress # Nil
\* RenderGCE returned the "cannot apply changes to ForwardingRule" error
ResidualError ==
    /\ path = "update" /\ pc = "done" /\ result = "error"
    /\ hist.request = "ok" /\ AllCallsOk

C21_WitnessExclusive ==
    /\ path = "update" /\ BothTargets(e) /\ ~BothIPs(e) /\ result = "error"
    /\ calls = <<>> /\ rules[CloudRegion][1].Labels = ExtLabels /\ e.Labels = Ptr(ProdLabels)

\* The previous pass created the rule (Insert and its wait succeeded)
Inserted(cs) == Len(cs) >= 2 /\ cs[1].op = "Insert" /\ cs[1].out = "ok" /\ cs[2].out = "ok"

\* C22 as claimed: Find reads the key RenderGCE writes, for every desired
\* Region: after a create that succeeded, a Find that does not fail returns
\* a non-nil actual, and the create path is not taken again.
C22_SameKey ==
    (Inserted(hist.prevCalls) /\ hist.prevResult = "nil" /\ hist.findErr = "nil") =>
        (FindRegion = RenderRegion(e) /\ a # Nil /\ path # "create")

\* C23 as claimed: with a non-empty Name, RenderGCE ends in nil or in an
\* error for every combination of optional fields; it never crashes.
C23_NoCrash ==
    ValueOf(e.Name) # "" => (pc # "crashed" /\ result # "panic")

\* C24 as claimed: after a pass whose create inserted the rule and then
\* failed at the Get, the SetLabels or its wait, a pass without cloud
\* failure or external edit takes the update path, issues SetLabels with
\* the fingerprint of Find and no Insert, returns nil and leaves the desired
\* labels on the rule.
C24_PartialCreateConverges ==
    (pc = "done" /\ hist.prevPath = "create" /\ hist.prevResult = "error"
        /\ Inserted(hist.prevCalls) /\ ~hist.fault /\ extEdits = 0) =>
        /\ path = "update" /\ result = "nil"
        /\ \A i \in 1..Len(calls) : calls[i].op # "Insert"
        /\ \E i \in SetLabelsCalls : calls[i].token = a[1].labelFingerprint
        /\ HasRule(RenderRegion(e)) /\ Ptr(rules[RenderRegion(e)][1].Labels) = e.Labels

\* The last completed adapter call ran with a client handle
Completed == ret.op # "none" /\ lbClient
NilTolerantOps == {"listLBs", "getLBStats"}

\* C3 as claimed: with a nil client handle every adapter returns the
\* capability-unavailable error and makes no API call.
C3_NilClientEveryOp ==
    (ret.op # "none" /\ ~lbClient) => (ret.err = "unavailable" /\ ret.apiCalls = 0)
\* C3 as amended: with a nil client handle no adapter makes an API call or
\* an attempt; listLBs and getLBStats return a nil error, every other
\* adapter returns the capability-unavailable error.
C3_NilClient ==
    (ret.op # "none" /\ ~lbClient) =>
        /\ ret.apiCalls = 0 /\ ret.attempts = 0 /\ lpc = "idle"
        /\ exists = [k \in Kinds |-> FALSE] /\ members = 0
        /\ ret.op \notin NilTolerantOps => ret.err = "unavailable"
        /\ ret.op \in NilTolerantOps => ret.err = "nil"
C3_Witness ==
    ~lbClient /\ ret.op = "createPool" /\ ret.err = "unavailable" /\ ret.prev.same

\* C4: two calls in a row of one delete adapter, whose delete API calls fail
\* with nothing but not-found, both return nil, whether or not the resource
\* existed before the first; a final not-found response always returns nil.
C4_DeleteTwice ==
    (Completed /\ ret.op \in DeleteOps) =>
        /\ (ret.prev.same /\ ~ret.fault /\ ~ret.prev.fault) =>
              (ret.err = "nil" /\ ret.prev.err = "nil")
        /\ ret.api1 = "notfound" => ret.err = "nil"
C4_Witness ==
    /\ Completed /\ ret.op = "deletePool" /\ ret.prev.same /\ ret.prev.existed
    /\ ~ret.fault /\ ~ret.prev.fault
    /\ ret.prev.attempts = 2 /\ ret.attempts = 1 /\ ret.err = "nil"

\* C5: two calls in a row of associateToPool without API failure or foreign
\* removal, on a pool holding at most one membership of the server, both
\* return nil and leave exactly one membership.
C5_AssociateTwice ==
    (Completed /\ ret.op = "associateToPool" /\ ret.prev.same
        /\ ~ret.fault /\ ~ret.prev.fault /\ ~ret.ext /\ ~ret.prev.ext
        /\ ret.prev.membersBefore <= 1) =>
        (ret.err = "nil" /\ ret.prev.err = "nil" /\ ret.membersAfter = 1)
C5_Witness ==
    /\ Completed /\ ret.op = "associateToPool" /\ ret.prev.same
    /\ ~ret.fault /\ ~ret.prev.fault /\ ~ret.ext /\ ~ret.prev.ext
    /\ ret.prev.membersBefore = 0 /\ ret.api2 = "none" /\ ret.membersAfter = 1

\* C6: updateMemberInPool ends on a 409 only at its last attempt, number
\* memberBackoff.Steps; an attempt that succeeds after 409s makes the call
\* return nil; when every attempt got a 409 the call returns the wait-timeout
\* error.
C6_ConflictRetried ==
    (Completed /\ ret.op = "updateMemberInPool") =>
        /\ ret.api1 = "conflict" => ret.attempts = MemberSteps
        /\ ret.api1 = "ok" => ret.err = "nil"
        /\ ret.all409 => (ret.attempts = MemberSteps /\ ret.err = "timeout")
        /\ ret.attempts <= MemberSteps
C6_Witness ==
    /\ Completed /\ ret.op = "updateMemberInPool"
    /\ ret.all409 /\ ret.attempts = 10 /\ ret.err = "timeout"
C6_WitnessLaterSuccess ==
    /\ Completed /\ ret.op = "updateMemberInPool"
    /\ ret.seen409 /\ ret.api1 = "ok" /\ ret.err = "nil" /\ ret.attempts = 10

\* C7: a not-found answer to the update call, at whichever attempt, ends
\* updateMemberInPool with a nil error: no attempt follows it.
C7_UpdateNotFound ==
    /\ (Completed /\ ret.op = "updateMemberInPool" /\ ret.api1 = "notfound") =>
          (ret.err = "nil" /\ ret.done)
    /\ (lpc = "retry" /\ cur.op = "updateMemberInPool") => cur.api1 # "notfound"
C7_Witness ==
    /\ Completed /\ ret.op = "updateMemberInPool" /\ ret.api1 = "notfound"
    /\ ret.attempts > 1 /\ ret.err = "nil"

\* C8: with a client handle, an adapter returns nil only if the API calls of
\* its final attempt succeeded, or that attempt was a not-found delete, a
\* not-found member update, or a failed member fetch followed by a
\* successful create in associateToPool.
C8_NoSwallowedError ==
    (Completed /\ ret.err = "nil") =>
        \/ (ret.api1 = "ok" /\ ret.api2 \in {"none", "ok"})
        \/ (ret.op \in DeleteOps /\ ret.api1 = "notfound")
        \/ (ret.op = "updateMemberInPool" /\ ret.api1 = "notfound")
        \/ (ret.op = "associateToPool" /\ ret.api1 # "ok" /\ ret.api2 = "ok")
C8_Witness ==
    /\ Completed /\ ret.err = "nil" /\ ret.op = "associateToPool"
    /\ ret.api1 = "error" /\ ret.api2 = "ok" /\ ret.attempts > 1

\* C9: an adapter whose attempts are used up without one reporting done
\* returns the error of its final attempt, or the wait-timeout error when
\* that attempt produced none; it never returns nil.
C9_Exhausted ==
    (Completed /\ ~ret.done) =>
        /\ ret.attempts = StepsOf(ret.op)
        /\ ret.err # "nil"
        /\ ret.lastErr # "nil" => ret.err = ret.lastErr
        /\ ret.lastErr = "nil" => ret.err = "timeout"
C9_Witness ==
    /\ Completed /\ ~ret.done /\ ret.op = "deleteMonitor"
    /\ ret.lastErr = "nil" /\ ret.err = "timeout"
C9_WitnessFinalError ==
    /\ Completed /\ ~ret.done /\ ret.op = "createPoolMonitor"
    /\ ret.lastErr = "wrapped" /\ ret.err = "wrapped"

\* C17: associateToPool changes nothing when the membership exists: an
\* attempt whose member fetch succeeds makes no second API call, ends the
\* call with nil, and leaves the number of memberships as the call found it;
\* CreateMember is issued only after a fetch that failed or found nothing.
C17_AssociateNoOp ==
    (Completed /\ ret.op = "associateToPool") =>
        /\ ret.api1 = "ok" =>
              /\ ret.api2 = "none" /\ ret.err = "nil" /\ ret.done
              /\ ~ret.ext => ret.membersAfter = ret.membersBefore
        /\ ret.api2 # "none" => ret.api1 # "ok"
C17_Witness ==
    /\ Completed /\ ret.op = "associateToPool" /\ ret.api1 = "ok" /\ ret.api2 = "none"
    /\ ret.attempts = 1 /\ ~ret.ext /\ ret.membersBefore = 1 /\ ret.membersAfter = 1
    /\ ret.apiCalls = 1 /\ ret.err = "nil"

\* The attempts the backoff policy of an adapter allows
PolicySteps(op) ==
    IF op = "updateMemberInPool" THEN MemberSteps
    ELSE IF op \in DeleteOps THEN DeleteSteps
    ELSE IF op \in {"createPoolMonitor", "createLB", "createPool", "associateToPool"}
         THEN WriteSteps
    ELSE ReadSteps

\* C18: a call of an adapter makes at most as many attempts as its backoff
\* policy has steps (memberBackoff.Steps for updateMemberInPool), at most two
\* API calls per attempt, and no attempt after one that reported done.
C18_BoundedAttempts ==
    /\ lpc = "retry" =>
          /\ cur.i < PolicySteps(cur.op) /\ ~cur.doneSeen
          /\ cur.apiCalls <= 2 * cur.i
    /\ Completed =>
          /\ ret.attempts >= 1 /\ ret.attempts <= PolicySteps(ret.op)
          /\ ret.apiCalls <= 2 * ret.attempts /\ ~ret.doneBefore
          /\ ret.done => ret.apiCalls >= ret.attempts
C18_Witness ==
    /\ Completed /\ ret.op = "updateMemberInPool" /\ ret.attempts = MemberSteps
    /\ ~ret.done /\ ret.apiCalls = MemberSteps
C18_WitnessDoneEarly ==
    /\ Completed /\ ret.op = "createPool" /\ ret.done /\ ret.attempts = 2
    /\ ret.attempts < PolicySteps("createPool") /\ ret.apiCalls = 2

\* C19 as claimed: a not-found answer ends getLB, getPool and getPoolMember:
\* no attempt follows the one that got it, and the call returns that error.
C19_GetNotFoundTerminal ==
    /\ (lpc = "retry" /\ cur.op \in GetOps) => cur.api1 # "notfound"
    /\ (Completed /\ ret.op \in GetOps /\ ret.api1 = "notfound") => ret.err = "notfound"

\* C20: a delete adapter returns nil exactly when the delete API call of its
\* final attempt answered not-found; an attempt whose delete call succeeded
\* does not end the call, which goes on to its last attempt; when it returns
\* nil the resource is absent, and while the resource is present the call
\* has returned an error.
C20_DeleteNilIffNotFound ==
    /\ (Completed /\ ret.op \in DeleteOps) =>
          /\ ret.err = "nil" <=> ret.api1 = "notfound"
          /\ ret.done <=> ret.api1 = "notfound"
          /\ ret.api1 = "ok" => (ret.attempts = DeleteSteps /\ ret.err = "timeout")
          /\ ret.err = "nil" => ~exists[KindOf(ret.op)]
          /\ exists[KindOf(ret.op)] => ret.err # "nil"
    /\ (lpc = "retry" /\ cur.op \in DeleteOps) => cur.api1 # "notfound"
C20_Witness ==
    /\ Completed /\ ret.op = "deleteListener" /\ ret.existed
    /\ ret.attempts = 2 /\ ret.api1 = "notfound" /\ ret.err = "nil"
    /\ ~exists["listener"] /\ ~ret.fault
C20_WitnessStillPresent ==
    /\ Completed /\ ret.op = "deleteMonitor" /\ exists["monitor"]
    /\ ret.attempts = DeleteSteps /\ ret.err = "wrapped"
====
